---- MODULE Spec2Model ----
(***************************************************************************)
(* Token manager (GoogleClient) of google-workspace-apis and the terminal  *)
(* request() operations of the resource builders that consume it.          *)
(*                                                                         *)
(* The manager is the struct of src/auth/client.rs (and its older copy in  *)
(* src/auth/types.rs, which differs in update_access_token).  Time is an   *)
(* integer clock of seconds.  An async operation is split at its           *)
(* suspension points: the awaited token-endpoint call and the awaited      *)
(* resource HTTP call.  While an operation is suspended it holds the       *)
(* exclusive borrow (&mut) of the manager, so only the clock and the       *)
(* remote side move.                                                       *)
(***************************************************************************)
EXTENDS Integers, Sequences, FiniteSets, TLC

\* ---------------------------------------------------------------- bounds
MaxClock == 3
MaxExpiresIn == 2
MaxHandlers == 2
MaxEndpointCalls == 2
MaxScopes == 2
MaxSetters == 2
MaxInstant == 3
SubSecondSteps == 2

\* ---------------------------------------------------------------- domains
Variants == {"client", "types"}
FailureStatuses == {401, 500}
Builders == {"calendar", "gmail", "gmail_delete", "gmail_trash",
             "tasks", "tasks_delete", "tasklist"}

VARIABLES
    now,                 \* chrono::Utc::now(), in seconds
    variant,             \* which copy of GoogleClient: client.rs or types.rs
    client_credentials,  \* GoogleClient.client_credentials
    access_token,        \* GoogleClient.access_token : Option<ClientTokenData>
    req_client,          \* GoogleClient.req_client (its default headers)
    auto_refresh_token,  \* GoogleClient.auto_refresh_token
    refresh_handlers,    \* GoogleClient.refresh_handlers, in registration order
    received,            \* per subscriber: number of on_token_refresh calls it got
    regAt,               \* per subscriber: successful refreshes before it registered
    successes,           \* successful refreshes so far
    endpoint_calls,      \* token-endpoint calls so far
    pc,                  \* "idle", "awaiting_token" or "awaiting_http"
    call,                \* the operation in progress, or the last one finished
    pre,                 \* the manager as it was when that operation started
    constructed,         \* the arguments and the instant of GoogleClient::new
    applied,             \* the last call of a free function of src/auth: its
                         \* name, its arguments and what it returned
    builder              \* the resource builder under construction: its mode,
                         \* its Request and its payload

vars == <<now, variant, client_credentials, access_token, req_client,
          auto_refresh_token, refresh_handlers, received, regAt, successes,
          endpoint_calls, pc, call, pre, constructed, applied, builder>>

manager == <<client_credentials, access_token, req_client,
             auto_refresh_token, refresh_handlers>>

\* ------------------------------------------------------------ pure parts

\* tests.rs dummy_creds
dummy_creds ==
    [client_id |-> "cid", client_secret |-> "secret",
     redirect_uri |-> "https://example.com/cb", refresh_token |-> "rtok"]

\* tests.rs dummy_access; an access token string is <<"atok", n>>, the n-th
\* token the provider issued (0 is the one the code exchange returned)
dummy_access(expires_in_secs) ==
    [token_type |-> "Bearer", access_token |-> <<"atok", 0>>,
     expires_in |-> expires_in_secs, refresh_token |-> "rtok",
     refresh_token_expires_in |-> 3600, scope |-> "scope"]

\* Option<T> is a sequence of length 0 (None) or 1 (Some)
None == <<>>
Some(x) == <<x>>

\* a conversion that forgets to add expires_in
ClientTokenData_from_no_expiry(token, t) ==
    [access_token |-> token.access_token,
     expires_on |-> t,
     refresh_token |-> token.refresh_token]

\* impl From<AccessToken> for ClientTokenData, evaluated at instant t
ClientTokenData_from(token, t) ==
    [access_token |-> token.access_token,
     expires_on |-> t + token.expires_in,
     refresh_token |-> token.refresh_token]

\* build_default_reqwest_client: the default headers of the client
build_default_reqwest_client(token) ==
    [authorization |-> <<"Bearer", token>>,
     accept |-> "application/json",
     content_type |-> "application/json"]

\* a validity test with the comparison the wrong way round
is_access_token_valid_flipped(at, t) ==
    IF Len(at) > 0 THEN t > at[1].expires_on ELSE FALSE

\* GoogleClient::is_access_token_valid at instant t
is_access_token_valid(at, t) ==
    IF Len(at) > 0 THEN t < at[1].expires_on ELSE FALSE

\* a guard that forgets the auto-refresh flag
needs_refresh_ignores_flag(auto, at, t) == ~is_access_token_valid(at, t)

\* a guard that forgets the validity test
needs_refresh_ignores_validity(auto, at, t) == auto

\* the guard of refresh_access_token_check
needs_refresh(auto, at, t) == auto /\ ~is_access_token_valid(at, t)

\* serde decoding of a token-endpoint JSON body into AccessToken:
\* every field is #[serde(default)], so an absent key gives "" or 0
Field(body, key, default) == IF key \in DOMAIN body THEN body[key] ELSE default

DecodeAccessToken(body) ==
    [token_type |-> Field(body, "token_type", ""),
     access_token |-> Field(body, "access_token", <<>>),
     expires_in |-> Field(body, "expires_in", 0),
     refresh_token |-> Field(body, "refresh_token", ""),
     refresh_token_expires_in |-> Field(body, "refresh_token_expires_in", 0),
     scope |-> Field(body, "scope", "")]

\* what the token endpoint may answer to the n-th refresh grant: a fresh
\* access token, with or without expires_in, with or without a refresh token
RefreshBodies(n) ==
    { [access_token |-> <<"atok", n>>] }
    \cup { [access_token |-> <<"atok", n>>, expires_in |-> e] :
             e \in 0..MaxExpiresIn }
    \cup { [access_token |-> <<"atok", n>>, expires_in |-> e,
            refresh_token |-> "rtok2"] : e \in 1..MaxExpiresIn }

EndpointFailures ==
    { [kind |-> "status", status |-> s] : s \in FailureStatuses }
    \cup { [kind |-> "transport"] }

\* refresh_acces_token as update_access_token calls it, on a success status:
\* the answer is the AccessToken decoded from the response body
refresh_acces_token_ok(body) == DecodeAccessToken(body)

\* the (access token, refresh token, expiry) triple handed to a subscriber
Triple(at) == <<at[1].access_token, at[1].refresh_token, at[1].expires_on>>

\* a conversion that takes expires_in for milliseconds' worth of seconds
update_token_data_millis(new_token, t) ==
    Some([ClientTokenData_from(new_token, t)
            EXCEPT !.expires_on = t + 1000 * new_token.expires_in])

\* update_access_token after a successful refresh_acces_token: new token data
update_token_data(new_token, t) == Some(ClientTokenData_from(new_token, t))

\* update_access_token after a successful refresh_acces_token: the HTTP
\* client; client.rs rebuilds it, types.rs leaves it alone
update_req_client(v, old_client, new_token) ==
    IF v = "client"
    THEN build_default_reqwest_client(new_token.access_token)
    ELSE old_client

\* a notification loop that walks the subscribers backwards
update_notifications_reversed(handlers, at) ==
    [i \in 1..Len(handlers) |->
        [handler |-> handlers[Len(handlers) + 1 - i],
         index |-> Len(handlers) + 1 - i,
         triple |-> Triple(at)]]

\* update_access_token: the on_token_refresh calls, in loop order
update_notifications(handlers, at) ==
    [i \in 1..Len(handlers) |-> [handler |-> handlers[i], index |-> i,
                                  triple |-> Triple(at)]]

\* ------------------------------------------------------------ src/auth
\* the free functions of the auth module: scope strings, the authorization
\* URL and the two token exchanges

\* enum Scope
Scopes ==
    {"Calendar", "CalendarEvents", "CalendarEventsReadonly",
     "CalendarReadOnly", "CalendarAppCreated", "CalendarEventsFreeBusy",
     "CalendarEventsOwned", "CalendarEventsOwnedReadonly",
     "CalendarEventsPublicReadonly", "TasksReadOnly", "Tasks", "Mail",
     "MailModify", "MailReadonly", "MailMetadata"}

\* Scope::as_str, arm by arm
as_str(s) ==
    CASE s = "Calendar" -> "https://www.googleapis.com/auth/calendar"
      [] s = "CalendarEventsReadonly" ->
           "https://www.googleapis.com/auth/calendar.events.readonly"
      [] s = "CalendarAppCreated" ->
           "https://www.googleapis.com/auth/calendar.app.created"
      [] s = "CalendarEventsFreeBusy" ->
           "https://www.googleapis.com/auth/calendar.events.freebusy"
      [] s = "CalendarEventsOwned" ->
           "https://www.googleapis.com/auth/calendar.events.owned"
      [] s = "CalendarEventsOwnedReadonly" ->
           "https://www.googleapis.com/auth/calendar.events.owned.readonly"
      [] s = "CalendarEventsPublicReadonly" ->
           "https://www.googleapis.com/auth/calendar.readonly"
      [] s = "CalendarReadOnly" ->
           "https://www.googleapis.com/auth/calendar.readonly"
      [] s = "CalendarEvents" ->
           "https://www.googleapis.com/auth/calendar.events"
      [] s = "TasksReadOnly" ->
           "https://www.googleapis.com/auth/tasks.readonly"
      [] s = "Tasks" -> "https://www.googleapis.com/auth/tasks"
      [] s = "Mail" -> "https://mail.google.com"
      [] s = "MailModify" -> "https://www.googleapis.com/auth/gmail.modify"
      [] s = "MailReadonly" ->
           "https://www.googleapis.com/auth/gmail.readonly"
      [] s = "MailMetadata" ->
           "https://www.googleapis.com/auth/gmail.metadata"

\* Vec<&str>::join: the strings with sep between neighbours; a string
\* built by concatenation is the sequence of its pieces
RECURSIVE join(_, _)
join(strs, sep) ==
    IF Len(strs) = 0 THEN <<>>
    ELSE IF Len(strs) = 1 THEN <<strs[1]>>
    ELSE <<strs[1], sep>> \o join(Tail(strs), sep)

\* the authorization endpoint
base_url == "https://accounts.google.com/o/oauth2/auth"

\* a URL builder that joins the scopes with commas
get_oauth_url_comma_joined(client_id, redirect_uri, scopes) ==
    <<base_url, "?", "client_id", "=", client_id,
      "&", "redirect_uri", "=", redirect_uri,
      "&", "response_type", "=", "code",
      "&", "scope", "=">>
    \o join([i \in 1..Len(scopes) |-> as_str(scopes[i])], ",")
    \o <<"&", "access_type", "=", "offline",
          "&", "prompt", "=", "consent">>

\* get_oauth_url: the format! string piece by piece, nothing percent-encoded
get_oauth_url(client_id, redirect_uri, scopes) ==
    <<base_url, "?", "client_id", "=", client_id,
      "&", "redirect_uri", "=", redirect_uri,
      "&", "response_type", "=", "code",
      "&", "scope", "=">>
    \o join([i \in 1..Len(scopes) |-> as_str(scopes[i])], " ")
    \o <<"&", "access_type", "=", "offline",
          "&", "prompt", "=", "consent">>

\* a serde_json::Value: a tagged value; an object's v maps its keys to values
JString(x) == [t |-> "string", v |-> x]
JNumber(n) == [t |-> "number", v |-> n]
JNull == [t |-> "null"]
JObject(fields) == [t |-> "object", v |-> fields]

\* the keys of a token response, in the order of AccessToken's fields, with
\* the alias of refresh_token_expires_in last
TokenKeys ==
    <<"token_type", "access_token", "expires_in", "refresh_token",
      "refresh_token_expires_in", "scope", "x_refresh_token_expires_in">>

\* the values a token endpoint's body may carry under a key: the well-typed
\* one, and for some keys null or a value of the wrong type
KeyValues(k) ==
    CASE k = "token_type" -> {JString("Bearer")}
      [] k = "access_token" -> {JString("atok"), JNumber(7), JNull}
      [] k = "expires_in" -> {JNumber(2), JString("3600")}
      [] k = "refresh_token" -> {JString("rtok"), JNull}
      [] k = "refresh_token_expires_in" -> {JNumber(5)}
      [] k = "scope" -> {JString("scope")}
      [] k = "x_refresh_token_expires_in" -> {JNumber(6)}

\* every JSON object over the first i keys, each key absent or present
RECURSIVE TokenObjects(_)
TokenObjects(i) ==
    IF i = 0 THEN { <<>> }
    ELSE TokenObjects(i - 1)
         \cup { f @@ (TokenKeys[i] :> x) :
                  f \in TokenObjects(i - 1), x \in KeyValues(TokenKeys[i]) }

\* the body of a success response: text that is not JSON, the JSON value
\* null, or a JSON object
ExchangeBodies ==
    { [syntax |-> "invalid"], [syntax |-> "json", value |-> JNull] }
    \cup { [syntax |-> "json", value |-> JObject(f)] :
             f \in TokenObjects(Len(TokenKeys)) }

\* what `client.post(url).form(&params).send().await` gives for an
\* authorization code: the provider rejects an empty code with 400
ExchangeResponses(code) ==
    { [kind |-> "transport"] }
    \cup { [kind |-> "status", status |-> st] :
             st \in FailureStatuses \cup {400} }
    \cup IF code = "" THEN {}
         ELSE { [kind |-> "success", body |-> b] : b \in ExchangeBodies }

\* json[key]: Null for a missing key or a value that is not an object
Index(json, key) ==
    IF json.t = "object" /\ key \in DOMAIN json.v THEN json.v[key] ELSE JNull

\* Value::as_str().unwrap_or_default() and Value::as_i64().unwrap_or(0)
as_str_or_default(j) == IF j.t = "string" THEN j.v ELSE ""
as_i64_or_0(j) == IF j.t = "number" THEN j.v ELSE 0

\* whether serde_json::from_value::<AccessToken> accepts the value: an
\* object whose string fields are strings or null, whose integer fields are
\* numbers, and that does not name refresh_token_expires_in twice
from_value_is_ok(json) ==
    /\ json.t = "object"
    /\ \A k \in {"token_type", "access_token", "refresh_token", "scope"} :
          k \in DOMAIN json.v => json.v[k].t \in {"string", "null"}
    /\ \A k \in {"expires_in", "refresh_token_expires_in",
                  "x_refresh_token_expires_in"} :
          k \in DOMAIN json.v => json.v[k].t = "number"
    /\ ~({"refresh_token_expires_in", "x_refresh_token_expires_in"}
            \subseteq DOMAIN json.v)

\* the AccessToken serde builds: a missing key gives the default, null gives
\* "" (deserialize_nullable_string), the alias fills refresh_token_expires_in
from_value(json) ==
    [token_type |-> as_str_or_default(Index(json, "token_type")),
     access_token |-> as_str_or_default(Index(json, "access_token")),
     expires_in |-> as_i64_or_0(Index(json, "expires_in")),
     refresh_token |-> as_str_or_default(Index(json, "refresh_token")),
     refresh_token_expires_in |->
         IF "refresh_token_expires_in" \in DOMAIN json.v
         THEN as_i64_or_0(Index(json, "refresh_token_expires_in"))
         ELSE as_i64_or_0(Index(json, "x_refresh_token_expires_in")),
     scope |-> as_str_or_default(Index(json, "scope"))]

\* the closure of unwrap_or_else in get_acces_token: field by field
field_by_field(json) ==
    [token_type |-> as_str_or_default(Index(json, "token_type")),
     access_token |-> as_str_or_default(Index(json, "access_token")),
     expires_in |-> as_i64_or_0(Index(json, "expires_in")),
     refresh_token |-> as_str_or_default(Index(json, "refresh_token")),
     refresh_token_expires_in |->
         as_i64_or_0(Index(json, "x_refresh_token_expires_in")),
     scope |-> as_str_or_default(Index(json, "scope"))]

\* an exchange that unwraps the result of send()
get_acces_token_unwraps_send(res) ==
    CASE res.kind = "transport" -> [kind |-> "panic"]
      [] res.kind = "status" ->
           [kind |-> "Err", cause |-> "status", status |-> res.status]
      [] res.kind = "success" ->
           IF res.body.syntax = "invalid"
           THEN [kind |-> "Err", cause |-> "decode"]
           ELSE [kind |-> "Ok",
                 value |-> IF from_value_is_ok(res.body.value)
                           THEN from_value(res.body.value)
                           ELSE field_by_field(res.body.value)]

\* get_acces_token, from the outcome of the awaited send() to its result
get_acces_token(res) ==
    CASE res.kind = "transport" -> [kind |-> "Err", cause |-> "transport"]
      [] res.kind = "status" ->
           [kind |-> "Err", cause |-> "status", status |-> res.status]
      [] res.kind = "success" ->
           IF res.body.syntax = "invalid"
           THEN [kind |-> "Err", cause |-> "decode"]
           ELSE [kind |-> "Ok",
                 value |-> IF from_value_is_ok(res.body.value)
                           THEN from_value(res.body.value)
                           ELSE field_by_field(res.body.value)]

\* what send().await gives for a refresh grant
RefreshResponses ==
    { [kind |-> "transport"] }
    \cup { [kind |-> "status", status |-> st] : st \in FailureStatuses }
    \cup { [kind |-> "success", body |-> b] : b \in ExchangeBodies }

\* refresh_acces_token of src/auth/mod.rs, from the outcome of the awaited
\* send() to its result: on a success status it unwraps the JSON decoding
\* and then the string under "access_token"
refresh_acces_token(res) ==
    CASE res.kind = "transport" -> [kind |-> "Err", cause |-> "transport"]
      [] res.kind = "status" ->
           [kind |-> "Err", cause |-> "status", status |-> res.status]
      [] res.kind = "success" ->
           IF res.body.syntax = "invalid"
           THEN [kind |-> "panic"]
           ELSE IF Index(res.body.value, "access_token").t = "string"
                THEN [kind |-> "Ok",
                      value |-> Index(res.body.value, "access_token").v]
                ELSE [kind |-> "panic"]

\* ------------------------------------------------------------ builders

\* the builders whose terminal request() calls the refresh check first
\* (calendar make_request, gmail delete_request / trash_request /
\* make_request, tasks make_delete_request / make_request); the task-list
\* builder's request() holds a bare reqwest client and makes no check
CallsRefreshCheck(b) == b # "tasklist"

\* request.method as an entry point (or a test) can have set it
BuilderMethods(b) ==
    CASE b = "calendar" -> {"GET", "POST", "DELETE"}
      [] b = "gmail" -> {"GET"}
      [] b = "tasks" -> {"GET", "POST", "PATCH"}
      [] b = "gmail_delete" -> {"DELETE", "POST"}
      [] b = "gmail_trash" -> {"POST"}
      [] b = "tasks_delete" -> {"DELETE"}
      [] OTHER -> {"GET"}

\* a make_request that passes every method on to reqwest
Supported_any_method(b, m) == TRUE

\* the match on request.method in make_request
Supported(b, m) ==
    CASE b = "calendar" -> m \in {"GET", "POST"}
      [] b \in {"gmail", "tasks"} -> m \in {"GET", "POST", "PATCH"}
      [] OTHER -> TRUE

\* the HTTP method the terminal operation sends
SentMethod(b, m) ==
    CASE b \in {"gmail_delete", "tasks_delete"} -> "DELETE"
      [] b = "gmail_trash" -> "POST"
      [] b = "tasklist" -> "GET"
      [] OTHER -> m

\* a terminal operation that reports every non-success status as no result
RequestResult_always_no_result(b, outcome) ==
    CASE outcome = "transport" -> "Err"
      [] b \in {"gmail_delete", "gmail_trash"} ->
           IF outcome = "success" THEN "Ok(())" ELSE "Ok(None)"
      [] b = "tasks_delete" ->
           IF outcome = "success" THEN "Ok(true)" ELSE "Ok(None)"
      [] OTHER ->
           IF outcome = "success" THEN "Ok(Some)" ELSE "Ok(None)"

\* how a terminal operation reports the resource call's outcome
RequestResult(b, outcome) ==
    CASE outcome = "transport" -> "Err"
      [] b \in {"gmail_delete", "gmail_trash"} ->
           IF outcome = "success" THEN "Ok(())" ELSE "Err"
      [] b = "tasks_delete" ->
           IF outcome = "success" THEN "Ok(true)" ELSE "Ok(false)"
      [] OTHER ->
           IF outcome = "success" THEN "Ok(Some)" ELSE "Ok(None)"

HttpOutcomes == {"success", "status", "transport"}

\* ------------------------------------------------------------ bookkeeping

Snapshot == <<manager, received>>

\* a refresh that posts the form without the refresh token
refresh_params_without_refresh_token(creds) ==
    [client_id |-> creds.client_id, client_secret |-> creds.client_secret,
     refresh_token |-> "", grant_type |-> "refresh_token"]

\* the form refresh_acces_token posts to the token endpoint
refresh_params(creds) ==
    [client_id |-> creds.client_id, client_secret |-> creds.client_secret,
     refresh_token |-> creds.refresh_token, grant_type |-> "refresh_token"]

NewCall(name, b, m) ==
    [name |-> name, builder |-> b, method |-> m, endpoint_calls |-> 0,
     refreshed |-> FALSE, response |-> None, checked |-> FALSE,
     notified |-> <<>>, http |-> None, result |-> "pending", err |-> "none",
     sent |-> None]

\* `call` after an operation that never suspends and returns nothing
NoCall == [NewCall("none", "none", "none") EXCEPT !.result = "Ok"]

\* `pre` while no operation is suspended
NoPre == <<>>

\* `applied` before any free function was called
NoApplied == [fn |-> "none", args |-> <<>>, result |-> <<>>]

\* the rest of make_request once the refresh check has returned Ok (or was
\* never made): match on the method and issue the resource call with the
\* manager's HTTP client
Dispatch(c, client) ==
    IF Supported(c.builder, c.method)
    THEN [c EXCEPT !.http = Some([method |-> SentMethod(c.builder, c.method),
                                  headers |-> client])]
    ELSE [c EXCEPT !.result = "Err", !.err = "unsupported"]

PcAfter(c) == IF c.result = "pending" THEN "awaiting_http" ELSE "idle"

\* ------------------------------------------------------------ operations

\* GoogleClient::new at instant t
\* ------------------------------------------------- request construction

\* Request::new: an empty URL, GET, no parameter, no body
Request_new == [url |-> <<>>, method |-> "GET", params |-> {}, body |-> None]

\* HashMap::insert: the key's entry is replaced, every other entry is kept
insert(map, key, value) == {e \in map : e[1] # key} \cup {<<key, value>>}

\* no builder exists
NoBuilder ==
    [client |-> "none", mode |-> "none", request |-> Request_new,
     payload |-> None, setters |-> 0,
     last |-> [op |-> "none", name |-> "none", target |-> "none",
               key |-> "none", value |-> "none", outcome |-> "none"]]

\* what the last operation on the builder was
Last(op, name, target, key, value, outcome) ==
    [op |-> op, name |-> name, target |-> target, key |-> key,
     value |-> value, outcome |-> outcome]

\* CalendarEventsClient::new, GmailClient::new, TasksClient::new: a builder
\* in the Uninitialized mode around Request::new, with no payload
builder_new(client) ==
    [client |-> client, mode |-> "Uninitialized", request |-> Request_new,
     payload |-> None, setters |-> 0,
     last |-> Last("new", "new", "none", "none", "none", "ok")]

\* an entry point: the mode, the URL, the method, the body and the payload
\* it fixes; the parameters of Request::new are carried over
Entered(b, name, mode, url, method, body, payload) ==
    [b EXCEPT !.mode = mode,
              !.request = [b.request EXCEPT !.url = url, !.method = method,
                                            !.body = body],
              !.payload = payload,
              !.last = Last("entry", name, "none", "none", "none", "ok")]

CalendarBase == "https://www.googleapis.com/calendar/v3/calendars/"
GmailBase == "https://gmail.googleapis.com/gmail/v1/users/"
TasksBase == "https://tasks.googleapis.com/tasks/v1/"

\* CreateEventRequest::new(start, end)
CreateEventRequest_new(start, end) == {<<"start", start>>, <<"end", end>>}

\* Task::new(): every field empty but the status
Task_new == {<<"status", "needsAction">>}

get_events(b, calendar_id) ==
    Entered(b, "get_events", "EventListMode",
            <<CalendarBase, calendar_id, "/events">>, "GET", b.request.body,
            None)

insert_event(b, calendar_id, start, end) ==
    Entered(b, "insert_event", "EventInsertMode",
            <<CalendarBase, calendar_id, "/events">>, "POST", b.request.body,
            Some(CreateEventRequest_new(start, end)))

\* patch_event, as tests.rs patch_event_setters_apply observes it
patch_event(b, calendar_id, event_id) ==
    Entered(b, "patch_event", "EventPatchMode",
            <<CalendarBase, calendar_id, "/events/", event_id>>, "PATCH",
            b.request.body, Some({}))

get_emails(b, user_id) ==
    Entered(b, "get_emails", "EmailListMode",
            <<GmailBase, user_id, "/messages">>, "GET", b.request.body, None)

get_email(b, user_id, email_id) ==
    Entered(b, "get_email", "EmailGetMode",
            <<GmailBase, user_id, "/messages/", email_id>>, "GET",
            b.request.body, None)

delete_email(b, user_id, email_id) ==
    Entered(b, "delete_email", "EmailDeleteMode",
            <<GmailBase, user_id, "/messages/", email_id>>, "DELETE",
            b.request.body, None)

\* trash_email and untrash_email return a builder in EmailDeleteMode
trash_email(b, user_id, email_id) ==
    Entered(b, "trash_email", "EmailDeleteMode",
            <<GmailBase, user_id, "/messages/", email_id, "/trash">>, "POST",
            b.request.body, None)

untrash_email(b, user_id, email_id) ==
    Entered(b, "untrash_email", "EmailDeleteMode",
            <<GmailBase, user_id, "/messages/", email_id, "/untrash">>,
            "POST", b.request.body, None)

get_task_lists(b) ==
    Entered(b, "get_task_lists", "TaskListMode",
            <<TasksBase, "users/@me/lists">>, "GET", b.request.body, None)

get_tasks(b, task_list_id) ==
    Entered(b, "get_tasks", "TasksMode",
            <<TasksBase, "lists/", task_list_id, "/tasks">>, "GET",
            b.request.body, None)

\* an insert_task that leaves the task unset, as complete_task does
insert_task_without_task(b, task_list_id) ==
    Entered(b, "insert_task", "TaskInsertMode",
            <<TasksBase, "lists/", task_list_id, "/tasks">>, "POST",
            b.request.body, None)

insert_task(b, task_list_id) ==
    Entered(b, "insert_task", "TaskInsertMode",
            <<TasksBase, "lists/", task_list_id, "/tasks">>, "POST",
            b.request.body, Some(Task_new))

complete_task(b, task_id, task_list_id) ==
    Entered(b, "complete_task", "TaskPatchMode",
            <<TasksBase, "lists/", task_list_id, "/tasks/", task_id>>,
            "PATCH", Some({<<"status", "completed">>}), None)

delete_task(b, task_id, task_list_id) ==
    Entered(b, "delete_task", "TaskDeleteMode",
            <<TasksBase, "lists/", task_list_id, "/tasks/", task_id>>,
            "DELETE", b.request.body, None)

\* the identifiers and instants a caller passes to an entry point
Ids == {"primary", "cal_123"}
ItemIds == {"evt_42"}
Instants == {"2026-01-01", "2026-02-01"}

\* the entry points of the Uninitialized builder of each client
EntryPoints(b) ==
    CASE b.client = "calendar" ->
             {get_events(b, id) : id \in Ids}
             \cup {insert_event(b, id, st, en) :
                      id \in Ids, st \in Instants, en \in Instants}
             \cup {patch_event(b, id, ev) : id \in Ids, ev \in ItemIds}
      [] b.client = "gmail" ->
             {get_emails(b, id) : id \in Ids}
             \cup {get_email(b, id, it) : id \in Ids, it \in ItemIds}
             \cup {delete_email(b, id, it) : id \in Ids, it \in ItemIds}
             \cup {trash_email(b, id, it) : id \in Ids, it \in ItemIds}
             \cup {untrash_email(b, id, it) : id \in Ids, it \in ItemIds}
      [] b.client = "tasks" ->
             {get_task_lists(b)}
             \cup {get_tasks(b, id) : id \in Ids}
             \cup {insert_task(b, id) : id \in Ids}
             \cup {complete_task(b, it, id) : id \in Ids, it \in ItemIds}
             \cup {delete_task(b, it, id) : id \in Ids, it \in ItemIds}
      [] OTHER -> {}

\* a setter of a mode: its name, whether it writes a query parameter, a
\* payload field or the whole payload, and the key it writes
Setter(name, target, key) == [name |-> name, target |-> target, key |-> key]

\* maxResults and pageToken of PaginationRequestTrait
PaginationSetters ==
    {Setter("max_results", "params", "maxResults"),
     Setter("page_token", "params", "pageToken")}

Setters(client, mode) ==
    CASE client = "calendar" /\ mode = "EventListMode" ->
             PaginationSetters \cup
             {Setter("time_min", "params", "timeMin"),
              Setter("time_max", "params", "timeMax"),
              Setter("event_type", "params", "eventTypes"),
              Setter("order_by", "params", "orderBy"),
              Setter("max_attendees", "params", "maxAttendees"),
              Setter("single_events", "params", "singleEvents"),
              Setter("show_hidden_invitations", "params",
                     "showHiddenInvitations"),
              Setter("query", "params", "q")}
      [] client = "calendar" /\ mode = "EventInsertMode" ->
             {Setter("set_event_summary", "event", "summary"),
              Setter("set_event_location", "event", "location"),
              Setter("set_event_attendees", "event", "attendees"),
              Setter("set_event_type", "event", "event_type"),
              Setter("set_birtday_properties", "event",
                     "birthday_properties"),
              Setter("set_color_id", "event", "color_id"),
              Setter("set_guests_can_invite_others", "event",
                     "guests_can_invite_others"),
              Setter("set_guests_can_modify", "event", "guests_can_modify"),
              Setter("set_guests_can_see_other_guests", "event",
                     "guests_can_see_other_guests"),
              Setter("set_id", "event", "id"),
              Setter("set_out_of_office_properties", "event",
                     "out_of_office_properties"),
              Setter("set_recurrence", "event", "recurrence")}
      [] client = "calendar" /\ mode = "EventPatchMode" ->
             {Setter("set_summary", "event", "summary"),
              Setter("set_start", "event", "start"),
              Setter("set_end", "event", "end"),
              Setter("set_send_updates", "params", "sendUpdates"),
              Setter("set_conference_data_version", "params",
                     "conferenceDataVersion"),
              Setter("support_attachments", "params", "supportAttachments"),
              Setter("set_max_attendees", "params", "maxAttendees")}
      [] client = "gmail" /\ mode = "EmailListMode" ->
             PaginationSetters \cup
             {Setter("include_spam_trash", "params", "includeSpamTrash"),
              Setter("query", "params", "q")}
      [] client = "tasks" /\ mode = "TaskListMode" -> PaginationSetters
      [] client = "tasks" /\ mode = "TasksMode" ->
             PaginationSetters \cup
             {Setter("get_completed_max", "params", "completedMax"),
              Setter("get_completed_min", "params", "completedMin"),
              Setter("get_due_max", "params", "dueMax"),
              Setter("get_due_min", "params", "dueMin"),
              Setter("show_completed", "params", "showCompleted"),
              Setter("show_deleted", "params", "showDeleted"),
              Setter("show_hidden", "params", "showHidden"),
              Setter("get_updated_min", "params", "updatedMin"),
              Setter("show_assigned", "params", "showAssigned")}
      [] client = "tasks" /\ mode = "TaskInsertMode" ->
             {Setter("set_parent", "params", "parent"),
              Setter("set_previous", "params", "previous"),
              Setter("set_task", "whole task", "task"),
              Setter("set_task_title", "task", "title"),
              Setter("set_task_etag", "task", "etag"),
              Setter("set_task_notes", "task", "notes"),
              Setter("set_task_due", "task", "due"),
              Setter("set_task_completed", "task", "completed"),
              Setter("set_task_hidden", "task", "hidden"),
              Setter("set_task_links", "task", "links")}
      [] OTHER -> {}

\* the values a caller passes to a setter
Values == {"a", "b"}

\* the Task values a caller passes to set_task
Tasks == {Task_new, insert(Task_new, "title", "b")}

SetterValues(st) == IF st.target = "whole task" THEN Tasks ELSE Values

\* a setter of the request's query parameters
set_param(b, st, value) ==
    [b EXCEPT !.request.params = insert(@, st.key, value),
              !.last = Last("setter", st.name, st.target, st.key, value,
                            "ok")]

\* a calendar setter that also puts the request back on GET
set_event_field_resets_method(b, st, value) ==
    IF Len(b.payload) = 1
    THEN [b EXCEPT !.payload = Some(insert(b.payload[1], st.key, value)),
                   !.request.method = "GET",
                   !.last = Last("setter", st.name, st.target, st.key, value,
                                 "ok")]
    ELSE [b EXCEPT !.last = Last("setter", st.name, st.target, st.key, value,
                                 "panic")]

\* a setter of the calendar insert mode: it writes its field of the event,
\* and panics with "Event not initialized for insertion" when there is none
set_event_field(b, st, value) ==
    IF Len(b.payload) = 1
    THEN [b EXCEPT !.payload = Some(insert(b.payload[1], st.key, value)),
                   !.last = Last("setter", st.name, st.target, st.key, value,
                                 "ok")]
    ELSE [b EXCEPT !.last = Last("setter", st.name, st.target, st.key, value,
                                 "panic")]

\* TasksClient::modify_task: the modifier runs on the task when there is
\* one, and the call is dropped when there is none
modify_task(b, st, value) ==
    IF Len(b.payload) = 1
    THEN [b EXCEPT !.payload = Some(insert(b.payload[1], st.key, value)),
                   !.last = Last("setter", st.name, st.target, st.key, value,
                                 "ok")]
    ELSE [b EXCEPT !.last = Last("setter", st.name, st.target, st.key, value,
                                 "dropped")]

\* TasksClient::set_task: the whole task is replaced
set_task(b, st, task) ==
    [b EXCEPT !.payload = Some(task),
              !.last = Last("setter", st.name, st.target, st.key, "task",
                            "ok")]

\* the setter st called with the value
apply_setter(b, st, value) ==
    LET b1 == CASE st.target = "params" -> set_param(b, st, value)
                [] st.target = "event" -> set_event_field(b, st, value)
                [] st.target = "task" -> modify_task(b, st, value)
                [] OTHER -> set_task(b, st, value)
    IN [b1 EXCEPT !.setters = @ + 1]

New(creds, token, auto, t) ==
    [client_credentials |-> creds,
     access_token |-> Some(ClientTokenData_from(token, t)),
     req_client |-> build_default_reqwest_client(token.access_token),
     auto_refresh_token |-> auto,
     refresh_handlers |-> <<>>]

Init ==
    \E v \in Variants, auto \in BOOLEAN, e \in 0..MaxExpiresIn :
        LET m == New(dummy_creds, dummy_access(e), auto, 0) IN
        /\ now = 0
        /\ variant = v
        /\ client_credentials = m.client_credentials
        /\ access_token = m.access_token
        /\ req_client = m.req_client
        /\ auto_refresh_token = m.auto_refresh_token
        /\ refresh_handlers = m.refresh_handlers
        /\ received = <<>>
        /\ regAt = <<>>
        /\ successes = 0
        /\ endpoint_calls = 0
        /\ pc = "idle"
        /\ call = [NewCall("new", "none", "none") EXCEPT !.result = "Ok"]
        /\ pre = NoPre
        /\ constructed = [at |-> 0, expires_in |-> e]
        /\ applied = NoApplied
        /\ builder = NoBuilder

\* #[derive(Default)] of GoogleClient: empty credentials, no token data, a
\* reqwest client without default headers, auto-refresh off, no subscriber
Default ==
    [client_credentials |-> [client_id |-> "", client_secret |-> "",
                             redirect_uri |-> "", refresh_token |-> ""],
     access_token |-> None,
     req_client |-> [authorization |-> <<>>, accept |-> "",
                     content_type |-> ""],
     auto_refresh_token |-> FALSE,
     refresh_handlers |-> <<>>]

\* a manager made by GoogleClient::default()
InitDefault ==
    \E v \in Variants :
        LET m == Default IN
        /\ now = 0
        /\ variant = v
        /\ client_credentials = m.client_credentials
        /\ access_token = m.access_token
        /\ req_client = m.req_client
        /\ auto_refresh_token = m.auto_refresh_token
        /\ refresh_handlers = m.refresh_handlers
        /\ received = <<>>
        /\ regAt = <<>>
        /\ successes = 0
        /\ endpoint_calls = 0
        /\ pc = "idle"
        /\ call = [NewCall("default", "none", "none") EXCEPT !.result = "Ok"]
        /\ pre = NoPre
        /\ constructed = [at |-> 0, expires_in |-> 0]
        /\ applied = NoApplied
        /\ builder = NoBuilder

\* the clock
Tick ==
    /\ now < MaxClock
    /\ now' = now + 1
    /\ UNCHANGED <<variant, client_credentials, access_token, req_client,
                   auto_refresh_token, refresh_handlers, received, regAt,
                   successes, endpoint_calls, pc, call, pre, constructed, applied, builder>>

\* the i-th subscriber registered: each registration wraps a new handler
\* object (Arc::new(handler))
Subscriber(i) == <<"handler", i>>

\* a registration that calls the new subscriber at once
add_token_refresh_handler_notifies(h) ==
    /\ pc = "idle"
    /\ Len(refresh_handlers) < MaxHandlers
    /\ refresh_handlers' = Append(refresh_handlers, h)
    /\ received' = Append(received, 1)
    /\ regAt' = Append(regAt, successes)
    /\ call' = NoCall
    /\ pre' = NoPre
    /\ UNCHANGED <<now, variant, client_credentials, access_token, req_client,
                   auto_refresh_token, successes, endpoint_calls, pc,
                   constructed, applied, builder>>

\* GoogleClient::add_token_refresh_handler
add_token_refresh_handler(h) ==
    /\ pc = "idle"
    /\ Len(refresh_handlers) < MaxHandlers
    /\ refresh_handlers' = Append(refresh_handlers, h)
    /\ received' = Append(received, 0)
    /\ regAt' = Append(regAt, successes)
    /\ call' = NoCall
    /\ pre' = NoPre
    /\ UNCHANGED <<now, variant, client_credentials, access_token, req_client,
                   auto_refresh_token, successes, endpoint_calls, pc,
                   constructed, applied, builder>>

\* a setter that toggles the flag instead of setting it
enable_auto_refresh_toggles ==
    /\ pc = "idle"
    /\ auto_refresh_token' = ~auto_refresh_token
    /\ call' = NoCall
    /\ pre' = NoPre
    /\ UNCHANGED <<now, variant, client_credentials, access_token, req_client,
                   refresh_handlers, received, regAt, successes,
                   endpoint_calls, pc, constructed, applied, builder>>

\* GoogleClient::enable_auto_refresh
enable_auto_refresh ==
    /\ pc = "idle"
    /\ auto_refresh_token' = TRUE
    /\ call' = NoCall
    /\ pre' = NoPre
    /\ UNCHANGED <<now, variant, client_credentials, access_token, req_client,
                   refresh_handlers, received, regAt, successes,
                   endpoint_calls, pc, constructed, applied, builder>>

\* GoogleClient::disable_auto_refresh
disable_auto_refresh ==
    /\ pc = "idle"
    /\ auto_refresh_token' = FALSE
    /\ call' = NoCall
    /\ pre' = NoPre
    /\ UNCHANGED <<now, variant, client_credentials, access_token, req_client,
                   refresh_handlers, received, regAt, successes,
                   endpoint_calls, pc, constructed, applied, builder>>

\* a validity query that throws expired token data away
ask_is_access_token_valid_drops_expired ==
    /\ pc = "idle"
    /\ call' = [NewCall("is_access_token_valid", "none", "none")
                  EXCEPT !.result =
                    IF is_access_token_valid(access_token, now)
                    THEN "true" ELSE "false"]
    /\ pre' = NoPre
    /\ access_token' = IF is_access_token_valid(access_token, now)
                       THEN access_token ELSE None
    /\ UNCHANGED <<now, variant, client_credentials, req_client,
                   auto_refresh_token, refresh_handlers, received, regAt,
                   successes, endpoint_calls, pc, constructed, applied, builder>>

\* a caller asking GoogleClient::is_access_token_valid
ask_is_access_token_valid ==
    /\ pc = "idle"
    /\ call' = [NewCall("is_access_token_valid", "none", "none")
                  EXCEPT !.result =
                    IF is_access_token_valid(access_token, now)
                    THEN "true" ELSE "false"]
    /\ pre' = NoPre
    /\ UNCHANGED <<now, variant, client_credentials, access_token, req_client,
                   auto_refresh_token, refresh_handlers, received, regAt,
                   successes, endpoint_calls, pc, constructed, applied, builder>>

\* a check that, once a refresh has failed, returns the error again without
\* calling the token endpoint
refresh_access_token_check_gives_up ==
    /\ pc = "idle"
    /\ IF needs_refresh(auto_refresh_token, access_token, now)
          /\ call.result # "Err"
       THEN /\ endpoint_calls < MaxEndpointCalls
            /\ endpoint_calls' = endpoint_calls + 1
            /\ pc' = "awaiting_token"
            /\ call' = [NewCall("refresh_access_token_check", "none", "none")
                          EXCEPT !.endpoint_calls = 1,
                                 !.sent = Some(refresh_params(
                                                 client_credentials))]
            /\ pre' = Snapshot
       ELSE /\ call' = [NewCall("refresh_access_token_check", "none", "none")
                          EXCEPT !.result =
                              IF needs_refresh(auto_refresh_token,
                                               access_token, now)
                              THEN "Err" ELSE "Ok"]
            /\ pre' = NoPre
            /\ UNCHANGED <<endpoint_calls, pc>>
    /\ UNCHANGED <<now, variant, client_credentials, access_token, req_client,
                   auto_refresh_token, refresh_handlers, received, regAt,
                   successes, constructed, applied, builder>>

\* GoogleClient::refresh_access_token_check, up to its suspension point: a
\* no-op returning Ok, or the token-endpoint call of update_access_token
refresh_access_token_check ==
    /\ pc = "idle"
    /\ IF needs_refresh(auto_refresh_token, access_token, now)
       THEN /\ endpoint_calls < MaxEndpointCalls
            /\ endpoint_calls' = endpoint_calls + 1
            /\ pc' = "awaiting_token"
            /\ call' = [NewCall("refresh_access_token_check", "none", "none")
                          EXCEPT !.endpoint_calls = 1,
                                 !.sent = Some(refresh_params(
                                                 client_credentials))]
            /\ pre' = Snapshot
       ELSE /\ call' = [NewCall("refresh_access_token_check", "none", "none")
                          EXCEPT !.result = "Ok"]
            /\ pre' = NoPre
            /\ UNCHANGED <<endpoint_calls, pc>>
    /\ UNCHANGED <<now, variant, client_credentials, access_token, req_client,
                   auto_refresh_token, refresh_handlers, received, regAt,
                   successes, constructed, applied, builder>>

\* an update that takes the token data out before it awaits the endpoint
update_access_token_takes_token ==
    /\ pc = "idle"
    /\ endpoint_calls < MaxEndpointCalls
    /\ endpoint_calls' = endpoint_calls + 1
    /\ pc' = "awaiting_token"
    /\ call' = [NewCall("update_access_token", "none", "none")
                  EXCEPT !.endpoint_calls = 1,
                         !.sent = Some(refresh_params(client_credentials))]
    /\ pre' = Snapshot
    /\ access_token' = None
    /\ UNCHANGED <<now, variant, client_credentials, req_client,
                   auto_refresh_token, refresh_handlers, received, regAt,
                   successes, constructed, applied, builder>>

\* GoogleClient::update_access_token called directly, up to its suspension
\* point
update_access_token ==
    /\ pc = "idle"
    /\ endpoint_calls < MaxEndpointCalls
    /\ endpoint_calls' = endpoint_calls + 1
    /\ pc' = "awaiting_token"
    /\ call' = [NewCall("update_access_token", "none", "none")
                  EXCEPT !.endpoint_calls = 1,
                         !.sent = Some(refresh_params(client_credentials))]
    /\ pre' = Snapshot
    /\ UNCHANGED <<now, variant, client_credentials, access_token, req_client,
                   auto_refresh_token, refresh_handlers, received, regAt,
                   successes, constructed, applied, builder>>

\* a terminal request() that refreshes whenever auto-refresh is on
BuilderRequest_refreshes_valid_token(b, m) ==
    /\ pc = "idle"
    /\ IF CallsRefreshCheck(b)
          /\ auto_refresh_token
       THEN /\ endpoint_calls < MaxEndpointCalls
            /\ endpoint_calls' = endpoint_calls + 1
            /\ pc' = "awaiting_token"
            /\ call' = [NewCall("request", b, m)
                          EXCEPT !.endpoint_calls = 1,
                                 !.sent = Some(refresh_params(
                                                 client_credentials))]
            /\ pre' = Snapshot
       ELSE LET c == Dispatch([NewCall("request", b, m)
                                 EXCEPT !.checked = CallsRefreshCheck(b)],
                              req_client)
            IN  /\ call' = c
                /\ pc' = PcAfter(c)
                /\ pre' = NoPre
                /\ UNCHANGED endpoint_calls
    /\ UNCHANGED <<now, variant, client_credentials, access_token, req_client,
                   auto_refresh_token, refresh_handlers, received, regAt,
                   successes, constructed, applied, builder>>

\* the terminal request() of a builder, up to its first suspension point
BuilderRequest(b, m) ==
    /\ pc = "idle"
    /\ IF CallsRefreshCheck(b)
          /\ needs_refresh(auto_refresh_token, access_token, now)
       THEN /\ endpoint_calls < MaxEndpointCalls
            /\ endpoint_calls' = endpoint_calls + 1
            /\ pc' = "awaiting_token"
            /\ call' = [NewCall("request", b, m)
                          EXCEPT !.endpoint_calls = 1,
                                 !.sent = Some(refresh_params(
                                                 client_credentials))]
            /\ pre' = Snapshot
       ELSE LET c == Dispatch([NewCall("request", b, m)
                                 EXCEPT !.checked = CallsRefreshCheck(b)],
                              req_client)
            IN  /\ call' = c
                /\ pc' = PcAfter(c)
                /\ pre' = NoPre
                /\ UNCHANGED endpoint_calls
    /\ UNCHANGED <<now, variant, client_credentials, access_token, req_client,
                   auto_refresh_token, refresh_handlers, received, regAt,
                   successes, constructed, applied, builder>>

\* the token endpoint answers with a success status: the rest of
\* update_access_token, then the return of the check and, in a builder,
\* the resource call
RefreshSucceeds(body) ==
    /\ pc = "awaiting_token"
    /\ LET new_token == refresh_acces_token_ok(body)
           new_data == update_token_data(new_token, now)
           client == update_req_client(variant, req_client, new_token)
           notes == update_notifications(refresh_handlers, new_data)
           done == [call EXCEPT !.refreshed = TRUE,
                                !.response = Some(body),
                                !.notified = notes]
           c == IF call.name = "request"
                THEN Dispatch([done EXCEPT !.checked = TRUE], client)
                ELSE [done EXCEPT !.result = "Ok"]
       IN  /\ access_token' = new_data
           /\ req_client' = client
           /\ received' = [i \in 1..Len(received) |->
                             received[i] + Cardinality(
                               {j \in 1..Len(notes) : notes[j].index = i})]
           /\ call' = c
           /\ pc' = PcAfter(c)
    /\ successes' = successes + 1
    /\ pre' = NoPre
    /\ UNCHANGED <<now, variant, client_credentials, auto_refresh_token,
                   refresh_handlers, regAt, endpoint_calls, constructed, applied, builder>>

\* a builder request that reports a failed refresh check as no result
return_refresh_error_swallowed(c, f) ==
    IF c.name = "request"
    THEN [c EXCEPT !.result = IF c.builder = "tasks_delete" THEN "Ok(false)"
                              ELSE "Ok(None)",
                   !.err = f.kind]
    ELSE [c EXCEPT !.result = "Err", !.err = f.kind]

\* `?` on the awaited refresh: the error of refresh_acces_token is the
\* result of update_access_token, of refresh_access_token_check and of the
\* builder's request(), and nothing after the `?` runs
return_refresh_error(c, f) == [c EXCEPT !.result = "Err", !.err = f.kind]

\* a failure path that clears the stale token data
RefreshFails_clears_token(f) ==
    /\ pc = "awaiting_token"
    /\ call' = [call EXCEPT !.result = "Err", !.err = f.kind]
    /\ pc' = "idle"
    /\ pre' = NoPre
    /\ access_token' = None
    /\ UNCHANGED <<now, variant, client_credentials, req_client,
                   auto_refresh_token, refresh_handlers, received, regAt,
                   successes, endpoint_calls, constructed, applied, builder>>

\* the token endpoint answers with a non-success status, or the transport
\* fails: refresh_acces_token returns Err and `?` returns it to the caller
RefreshFails(f) ==
    /\ pc = "awaiting_token"
    /\ call' = return_refresh_error(call, f)
    /\ pc' = "idle"
    /\ pre' = NoPre
    /\ UNCHANGED <<now, variant, client_credentials, access_token, req_client,
                   auto_refresh_token, refresh_handlers, received, regAt,
                   successes, endpoint_calls, constructed, applied, builder>>

\* the caller drops the future of a refresh while it is suspended at the
\* awaited token-endpoint call: nothing after the await runs, and the
\* exclusive borrow of the manager ends
CancelRefresh ==
    /\ pc = "awaiting_token"
    /\ call' = [call EXCEPT !.result = "Cancelled"]
    /\ pc' = "idle"
    /\ pre' = NoPre
    /\ UNCHANGED <<now, variant, client_credentials, access_token, req_client,
                   auto_refresh_token, refresh_handlers, received, regAt,
                   successes, endpoint_calls, constructed, applied, builder>>

\* the resource server answers (or the transport fails)
HttpResponds(outcome) ==
    /\ pc = "awaiting_http"
    /\ call' = [call EXCEPT !.result = RequestResult(call.builder, outcome),
                            !.err = IF outcome = "success" THEN "none"
                                    ELSE outcome]
    /\ pc' = "idle"
    /\ UNCHANGED <<now, variant, client_credentials, access_token, req_client,
                   auto_refresh_token, refresh_handlers, received, regAt,
                   successes, endpoint_calls, pre, constructed, applied, builder>>

\* the manager's own operations and the token endpoint
NextManager ==
    \/ Tick
    \/ enable_auto_refresh
    \/ disable_auto_refresh
    \/ ask_is_access_token_valid
    \/ refresh_access_token_check
    \/ update_access_token
    \/ \E body \in RefreshBodies(endpoint_calls) : RefreshSucceeds(body)
    \/ \E f \in EndpointFailures : RefreshFails(f)
    \/ CancelRefresh

\* a caller that issues builder requests on the manager
Next ==
    \/ NextManager
    \/ \E b \in Builders : \E m \in BuilderMethods(b) : BuilderRequest(b, m)
    \/ \E o \in HttpOutcomes : HttpResponds(o)

Spec == Init /\ [][Next]_vars

\* a caller that registers subscribers on the manager
NextSubscribers ==
    \/ NextManager
    \/ add_token_refresh_handler(Subscriber(Len(refresh_handlers) + 1))

SpecSubscribers == Init /\ [][NextSubscribers]_vars

\* a manager that starts from GoogleClient::default(), without token data
SpecDefault == InitDefault /\ [][NextManager]_vars

\* a call of a free function of src/auth touches no manager
AuthFrame ==
    UNCHANGED <<now, variant, client_credentials, access_token, req_client,
                auto_refresh_token, refresh_handlers, received, regAt,
                successes, endpoint_calls, pc, call, pre, constructed,
                builder>>

\* a caller takes the canonical strings of two scopes (the free functions
\* keep nothing between calls, so a behaviour records one call)
CallAsStr(s, t) ==
    /\ applied = NoApplied
    /\ applied' = [fn |-> "as_str", args |-> <<s, t>>,
                   result |-> <<as_str(s), as_str(t)>>]
    /\ AuthFrame

\* a caller exchanges an authorization code and the endpoint answers
CallGetAccesToken(code, res) ==
    /\ applied = NoApplied
    /\ applied' = [fn |-> "get_acces_token", args |-> <<code, res>>,
                   result |-> get_acces_token(res)]
    /\ AuthFrame

\* the scope lists a caller asks for
ScopeLists == UNION { [1..n -> Scopes] : n \in 0..MaxScopes }

\* the client ids and the redirect URI of the callers
ClientIds == {"abc", "cid"}
RedirectUris == {"https://app/cb"}

\* a caller builds the authorization URL
CallGetOauthUrl(client_id, redirect_uri, scopes) ==
    /\ applied = NoApplied
    /\ applied' = [fn |-> "get_oauth_url",
                   args |-> <<client_id, redirect_uri, scopes>>,
                   result |-> get_oauth_url(client_id, redirect_uri, scopes)]
    /\ AuthFrame

\* a caller refreshes with its credentials and the endpoint answers
CallRefreshAccesToken(creds, res) ==
    /\ applied = NoApplied
    /\ applied' = [fn |-> "refresh_acces_token", args |-> <<creds, res>>,
                   result |-> refresh_acces_token(res)]
    /\ AuthFrame

\* the authorization codes a redirect handler passes on; "" when the
\* redirect carried no code parameter
Codes == {"", "4/code"}

\* a program that calls the free functions of src/auth
\* instants at sub-second resolution: SubSecondSteps steps to the second
InstantSteps == 0..(MaxInstant * SubSecondSteps)

\* the strings a caller passes as datetime_str: the RFC 3339 text of an
\* instant, or text that is not a date
DateStrings ==
    {[text |-> "rfc3339", instant |-> t] : t \in InstantSteps}
    \cup {[text |-> "not a date", instant |-> 0]}

\* DateTime::<Utc>::from_str
from_str(datetime_str) ==
    IF datetime_str.text = "rfc3339" THEN Some(datetime_str.instant) ELSE None

\* TimeDelta::num_seconds: the whole seconds of the duration, the fraction
\* dropped towards zero
num_seconds(d) ==
    IF d >= 0 THEN d \div SubSecondSteps ELSE -((-d) \div SubSecondSteps)

\* a helper that measures from the stored instant to now
get_validity_token_secs_elapsed(datetime_str, utc_now) ==
    LET saved_date == from_str(datetime_str) IN
    IF Len(saved_date) = 0 THEN [kind |-> "panic", secs |-> 0]
    ELSE [kind |-> "value", secs |-> num_seconds(utc_now - saved_date[1])]

\* get_validity_token_secs: the unwrap panics on text that is not a date
get_validity_token_secs(datetime_str, utc_now) ==
    LET saved_date == from_str(datetime_str) IN
    IF Len(saved_date) = 0 THEN [kind |-> "panic", secs |-> 0]
    ELSE [kind |-> "value", secs |-> num_seconds(saved_date[1] - utc_now)]

\* a caller asks how long a stored expiry is still valid; Utc::now() is
\* read inside the function
CallGetValidityTokenSecs(datetime_str, utc_now) ==
    /\ applied = NoApplied
    /\ applied' = [fn |-> "get_validity_token_secs",
                   args |-> <<datetime_str, utc_now>>,
                   result |-> get_validity_token_secs(datetime_str, utc_now)]
    /\ AuthFrame

NextAuth ==
    \/ \E s, t \in Scopes : CallAsStr(s, t)
    \/ \E code \in Codes : \E res \in ExchangeResponses(code) :
          CallGetAccesToken(code, res)
    \/ \E res \in RefreshResponses : CallRefreshAccesToken(dummy_creds, res)
    \/ \E c \in ClientIds, u \in RedirectUris, l \in ScopeLists :
          CallGetOauthUrl(c, u, l)
    \/ \E d \in DateStrings, t \in InstantSteps :
          CallGetValidityTokenSecs(d, t)

SpecAuth == InitDefault /\ [][NextAuth]_vars

\* ------------------------- a caller that retries against a failing endpoint

\* the token endpoint fails, but not for ever: of the calls a behaviour
\* makes, the last one allowed is not a failure
RefreshFailsBeforeRecovery(f) ==
    /\ endpoint_calls < MaxEndpointCalls
    /\ RefreshFails(f)

\* the endpoint answers a pending refresh call
EndpointAnswers ==
    \/ \E body \in RefreshBodies(endpoint_calls) : RefreshSucceeds(body)
    \/ \E f \in EndpointFailures : RefreshFailsBeforeRecovery(f)

NextRetry ==
    \/ Tick
    \/ refresh_access_token_check
    \/ \E body \in RefreshBodies(endpoint_calls) : RefreshSucceeds(body)
    \/ \E f \in EndpointFailures : RefreshFailsBeforeRecovery(f)

\* the caller keeps making the check, and the awaited token-endpoint call
\* always completes
SpecRetry ==
    /\ Init
    /\ [][NextRetry]_vars
    /\ WF_vars(refresh_access_token_check)
    /\ WF_vars(EndpointAnswers)

\* --------------------------------------- a caller that builds a request

BuilderFrame ==
    UNCHANGED <<now, variant, client_credentials, access_token, req_client,
                auto_refresh_token, refresh_handlers, received, regAt,
                successes, endpoint_calls, pc, call, pre, constructed,
                applied>>

BuilderClients == {"calendar", "gmail", "tasks"}

\* CalendarEventsClient::new(client), GmailClient::new(client) or
\* TasksClient::new(client)
NewBuilder(client) ==
    /\ builder' = builder_new(client)
    /\ BuilderFrame

\* an entry point consumes the Uninitialized builder and returns the
\* builder of its mode
EnterMode(b) ==
    /\ builder.mode = "Uninitialized"
    /\ b \in EntryPoints(builder)
    /\ builder' = b
    /\ BuilderFrame

\* a setter of the builder's mode consumes the builder and returns it
CallSetter(st, value) ==
    /\ builder.setters < MaxSetters
    /\ st \in Setters(builder.client, builder.mode)
    /\ builder' = apply_setter(builder, st, value)
    /\ BuilderFrame

NextBuilder ==
    \/ \E client \in BuilderClients : NewBuilder(client)
    \/ \E b \in EntryPoints(builder) : EnterMode(b)
    \/ \E st \in Setters(builder.client, builder.mode) :
          \E value \in SetterValues(st) : CallSetter(st, value)

SpecBuilder == InitDefault /\ [][NextBuilder]_vars

\* ================================================================ claims

\* the step in which the awaited token-endpoint call of a refresh fails
FailedRefreshStep ==
    pc = "awaiting_token" /\ pc' = "idle" /\ call'.result = "Err"

\* the step in which the awaited token-endpoint call succeeds and the rest
\* of update_access_token runs
SuccessfulRefreshStep ==
    pc = "awaiting_token" /\ call'.refreshed

FromCheck(c) == c.name \in {"refresh_access_token_check", "request"}

\* C1: a failed refresh (non-success status or transport failure) leaves the
\* token data, the HTTP client and the rest of the manager exactly as they
\* were before the call, notifies no subscriber, leaves a manager that the
\* check found Expired still Expired, and returns an error.
C1_FailedRefreshChangesNothing ==
    [][FailedRefreshStep =>
          /\ <<manager, received>>' = pre
          /\ call'.notified = <<>>
          /\ call'.err \in {"status", "transport"}
          /\ (FromCheck(call) => ~is_access_token_valid(access_token', now'))
      ]_vars

C1_Witness ==
    /\ pc = "idle"
    /\ call.name = "refresh_access_token_check"
    /\ call.result = "Err"
    /\ Len(refresh_handlers) > 0
    /\ successes = 0

\* C2 as stated: every successful refresh made by the check of an Expired,
\* auto-refreshing manager installs the returned access token with an
\* expiry strictly later than the old one and leaves the token valid when
\* the check returns.
C2_Original ==
    [][SuccessfulRefreshStep /\ FromCheck(call) =>
          /\ access_token'[1].access_token = call'.response[1].access_token
          /\ access_token'[1].expires_on > access_token[1].expires_on
          /\ is_access_token_valid(access_token', now')
      ]_vars

\* C2 amended: the same, for a refresh response that carries expires_in > 0;
\* the returned access token is installed in every case.
C2_RefreshMakesValid ==
    [][SuccessfulRefreshStep /\ FromCheck(call) =>
          /\ access_token'[1].access_token = call'.response[1].access_token
          /\ (Field(call'.response[1], "expires_in", 0) > 0 =>
                /\ access_token'[1].expires_on > access_token[1].expires_on
                /\ is_access_token_valid(access_token', now'))
      ]_vars

C2_Witness ==
    /\ pc = "idle"
    /\ call.name = "refresh_access_token_check"
    /\ call.refreshed
    /\ call.result = "Ok"
    /\ Field(call.response[1], "expires_in", 0) > 0
    /\ is_access_token_valid(access_token, now)
    /\ access_token[1].access_token # <<"atok", 0>>

C4_EverySubscriberNotifiedOnce ==
    [][SuccessfulRefreshStep =>
          LET notes == call'.notified IN
          /\ Len(notes) = Len(refresh_handlers)
          /\ \A i \in 1..Len(refresh_handlers) :
                /\ Cardinality({j \in 1..Len(notes) :
                                  notes[j].handler = refresh_handlers[i]}) = 1
                /\ received'[i] = received[i] + 1
          /\ \A j, k \in 1..Len(notes) :
                j < k => notes[j].index < notes[k].index
          /\ \A j \in 1..Len(notes) :
                /\ notes[j].handler = refresh_handlers[notes[j].index]
                /\ notes[j].triple = <<access_token'[1].access_token,
                                       access_token'[1].refresh_token,
                                       access_token'[1].expires_on>>
          /\ pc' = "idle"
      ]_vars

C4_Witness ==
    /\ pc = "idle"
    /\ call.refreshed
    /\ Len(call.notified) = 2
    /\ received = <<2, 1>>

\* a builder request whose method its terminal operation supports
SupportedRequest(c) == c.name = "request" /\ Supported(c.builder, c.method)

\* C5: with auto-refresh disabled the refresh check calls no token endpoint,
\* changes nothing and returns Ok, Valid or Expired; a builder request on
\* such a manager with an expired token makes no refresh call and goes on
\* to the resource HTTP call with the HTTP client, and so the stale bearer
\* token, that the manager already held.
C5_DisabledCheckIsNoOp ==
    [][/\ (refresh_access_token_check /\ ~auto_refresh_token =>
              /\ UNCHANGED <<manager, received, endpoint_calls, successes>>
              /\ pc' = "idle"
              /\ call'.result = "Ok")
       /\ ((\E b \in Builders : \E m \in BuilderMethods(b) : BuilderRequest(b, m))
              /\ ~auto_refresh_token
              /\ ~is_access_token_valid(access_token, now)
              /\ SupportedRequest(call') =>
              /\ UNCHANGED <<manager, endpoint_calls, successes>>
              /\ call'.endpoint_calls = 0
              /\ pc' = "awaiting_http"
              /\ Len(call'.http) = 1
              /\ call'.http[1].headers = req_client)
      ]_vars

C5_Witness ==
    /\ pc = "awaiting_http"
    /\ call.builder = "tasks"
    /\ call.checked
    /\ call.endpoint_calls = 0
    /\ ~auto_refresh_token
    /\ constructed.expires_in = 0
    /\ successes = 0
    /\ endpoint_calls = 0

\* C6: while the token is Valid (now < expires_on) the refresh check calls
\* no token endpoint, changes nothing and notifies no subscriber, with
\* auto-refresh enabled or disabled.
C6_ValidCheckIsNoOp ==
    [][refresh_access_token_check /\ is_access_token_valid(access_token, now) =>
          /\ UNCHANGED <<manager, received, endpoint_calls, successes>>
          /\ pc' = "idle"
          /\ call'.result = "Ok"
          /\ call'.notified = <<>>
      ]_vars

C6_Witness ==
    /\ pc = "idle"
    /\ call.name = "refresh_access_token_check"
    /\ call.result = "Ok"
    /\ ~call.refreshed
    /\ auto_refresh_token
    /\ is_access_token_valid(access_token, now)
    /\ Len(refresh_handlers) > 0

\* C7: a manager constructed with expires_in = e > 0 is valid at the
\* construction instant and not valid once the clock is past that instant
\* plus e seconds (as long as no refresh has replaced the token).
C7_ValidUntilExpiry ==
    successes = 0 /\ constructed.expires_in > 0 =>
        /\ (now = constructed.at => is_access_token_valid(access_token, now))
        /\ (now > constructed.at + constructed.expires_in =>
              ~is_access_token_valid(access_token, now))
        /\ (call.name = "is_access_token_valid" /\ now = constructed.at =>
              call.result = "true")

C7_Witness ==
    /\ successes = 0
    /\ constructed.expires_in > 0
    /\ now > constructed.at + constructed.expires_in
    /\ call.name = "is_access_token_valid"
    /\ call.result = "false"

\* C8: every resource HTTP call of every builder's terminal request() is
\* preceded, in that request, by a completed refresh check.
C8_EveryRequestChecksFirst ==
    Len(call.http) > 0 => call.checked

\* C9: in every reachable state the bearer token configured on the
\* manager's HTTP client is the access token of the current token data.
C9_BearerIsCurrentToken ==
    Len(access_token) > 0 =>
        req_client.authorization = <<"Bearer", access_token[1].access_token>>

\* C10: a subscriber has received exactly as many notifications as there
\* were successful refreshes since it registered (so none from construction,
\* registration, the flag setters, the validity query, a no-op check or a
\* failed refresh), and registration only appends to the subscriber list.
C10_NotifiedOnlyBySuccessfulRefresh ==
    /\ [](/\ Len(received) = Len(refresh_handlers)
          /\ \A i \in 1..Len(refresh_handlers) :
                received[i] = successes - regAt[i])
    /\ [][/\ Len(refresh_handlers') >= Len(refresh_handlers)
          /\ SubSeq(refresh_handlers', 1, Len(refresh_handlers))
               = refresh_handlers
         ]_vars

C10_Witness ==
    /\ Len(refresh_handlers) = 2
    /\ received = <<1, 0>>
    /\ successes = 1
    /\ call.result = "Err"

\* C11: when a second refresh check in a row finds the token Expired and
\* makes its own token-endpoint call (the first one's refresh has succeeded
\* while the exclusive borrow kept the second out), then once the second
\* call succeeds too the manager is Valid and holds one consistent token:
\* access token, expiry and the HTTP client's bearer all come from that one
\* refresh response.
C11_TwoRefreshesOneConsistentToken ==
    [][SuccessfulRefreshStep /\ FromCheck(call) /\ successes = 1 =>
          LET r == call'.response[1] IN
          /\ access_token'[1].access_token = r.access_token
          /\ access_token'[1].expires_on = now' + Field(r, "expires_in", 0)
          /\ req_client'.authorization = <<"Bearer", r.access_token>>
          /\ is_access_token_valid(access_token', now')
      ]_vars

\* the step in which a suspended refresh is cancelled
CancelledRefreshStep ==
    pc = "awaiting_token" /\ call'.result = "Cancelled"

\* C12: a refresh cancelled at its suspension point, the awaited
\* token-endpoint call, leaves the manager with exactly the token data, HTTP
\* client, flag, credentials and subscriber list it had before the refresh
\* started, has notified no subscriber, counts as no successful refresh,
\* and leaves a manager that the check found Expired still Expired.
C12_CancelledRefreshChangesNothing ==
    [][CancelledRefreshStep =>
          /\ <<manager, received>>' = pre
          /\ call'.notified = <<>>
          /\ ~call'.refreshed
          /\ successes' = successes
          /\ (FromCheck(call) => ~is_access_token_valid(access_token', now'))
      ]_vars

C12_Witness ==
    /\ pc = "idle"
    /\ call.name = "refresh_access_token_check"
    /\ call.result = "Cancelled"
    /\ Len(refresh_handlers) > 0
    /\ endpoint_calls = 1

\* C13: is_access_token_valid returns true exactly when there is token data
\* and now < expires_on (so false at now = expires_on, and false without
\* token data), and the query changes no state of the manager, no
\* subscriber and no counter of endpoint calls.
C13_ValidityIsPure ==
    [][ask_is_access_token_valid =>
          /\ call'.result \in {"true", "false"}
          /\ (call'.result = "true" <=>
                 Len(access_token) = 1 /\ now < access_token[1].expires_on)
          /\ (Len(access_token) = 0 => call'.result = "false")
          /\ (Len(access_token) = 1 /\ now = access_token[1].expires_on =>
                 call'.result = "false")
          /\ UNCHANGED <<manager, received, successes, endpoint_calls, now,
                         pc>>
      ]_vars

\* the query at the very instant of expiry
C13_Witness ==
    /\ call.name = "is_access_token_valid"
    /\ call.result = "false"
    /\ Len(access_token) = 1
    /\ now = access_token[1].expires_on
    /\ now > 0

\* the query on a manager without token data
C13_WitnessNoToken ==
    /\ call.name = "is_access_token_valid"
    /\ call.result = "false"
    /\ Len(access_token) = 0

\* what a flag setter must leave alone: token data (and so the expiry), HTTP
\* client, credentials, subscribers and their notifications, and the
\* token-endpoint call counters (no network call)
SetterFrame ==
    UNCHANGED <<client_credentials, access_token, req_client,
                refresh_handlers, received, endpoint_calls, successes, pc>>

\* C14: enable_auto_refresh sets the auto-refresh flag to true and
\* disable_auto_refresh sets it to false, whatever it was before, and
\* neither changes anything else of the manager nor calls the network.
C14_SettersChangeOnlyFlag ==
    [][/\ (enable_auto_refresh => auto_refresh_token' = TRUE /\ SetterFrame)
       /\ (disable_auto_refresh => auto_refresh_token' = FALSE /\ SetterFrame)
      ]_vars

\* disable_auto_refresh was the last operation, on a manager that had
\* refreshed its token before
C14_Witness ==
    /\ call = NoCall
    /\ refresh_handlers = <<>>
    /\ ~auto_refresh_token
    /\ successes = 1
    /\ access_token[1].access_token = <<"atok", 1>>

\* C15: Scope::as_str is one-to-one: two scopes with the same canonical
\* string are the same variant.
C15_AsStrOneToOne ==
    applied.fn = "as_str" /\ applied.result[1] = applied.result[2] =>
        applied.args[1] = applied.args[2]

WellFormed(b, k, ty) ==
    /\ b.syntax = "json"
    /\ b.value.t = "object"
    /\ k \in DOMAIN b.value.v
    /\ b.value.v[k].t = ty

\* the value a field of the result must have: the body's, when it is
\* well-formed there (under the field's name or, if not, its alias)
Expected(b, names, ty, default) ==
    IF \E i \in 1..Len(names) : WellFormed(b, names[i], ty)
    THEN LET k == IF WellFormed(b, names[1], ty)
                  THEN names[1] ELSE names[Len(names)]
         IN  b.value.v[k].v
    ELSE default

\* C17: for every success-status response, whatever its body, the exchange
\* returns Ok with an AccessToken in which each well-formed field has the
\* body's value and each missing or wrongly typed field is "" or 0.
C17_SuccessBodyNeverFails ==
    applied.fn = "get_acces_token" /\ applied.args[2].kind = "success" =>
        LET b == applied.args[2].body
            r == applied.result
        IN  /\ r.kind = "Ok"
            /\ \A k \in {"token_type", "access_token", "refresh_token",
                          "scope"} :
                  r.value[k] = Expected(b, <<k>>, "string", "")
            /\ r.value.expires_in = Expected(b, <<"expires_in">>, "number", 0)
            /\ r.value.refresh_token_expires_in =
                  Expected(b, <<"refresh_token_expires_in",
                                "x_refresh_token_expires_in">>, "number", 0)

\* C18: refresh_acces_token returns a value for every outcome of the token
\* endpoint: the new access token on success, an error carrying the status
\* on a non-success status, an error on a transport failure, and an error,
\* not a panic, on a success status whose body is not JSON or has no string
\* under "access_token".
C18_RefreshExchangeNeverPanics ==
    applied.fn = "refresh_acces_token" =>
        LET res == applied.args[2]
            r == applied.result
            decodable == /\ res.kind = "success"
                         /\ WellFormed(res.body, "access_token", "string")
        IN  /\ r.kind \in {"Ok", "Err"}
            /\ (decodable =>
                  r.kind = "Ok"
                  /\ r.value = res.body.value.v["access_token"].v)
            /\ (res.kind = "status" =>
                  r.kind = "Err" /\ r.cause = "status"
                  /\ r.status = res.status)
            /\ (res.kind = "transport" => r.kind = "Err")
            /\ (res.kind = "success" /\ ~decodable => r.kind = "Err")

\* whether pat occurs in url as a run of neighbouring pieces
Contains(url, pat) ==
    \E i \in 0..(Len(url) - Len(pat)) : SubSeq(url, i + 1, i + Len(pat)) = pat

\* the query of a URL cut at each "&": a sequence of parameters
RECURSIVE SplitParams(_, _)
SplitParams(pieces, current) ==
    IF Len(pieces) = 0 THEN <<current>>
    ELSE IF pieces[1] = "&"
         THEN <<current>> \o SplitParams(Tail(pieces), <<>>)
         ELSE SplitParams(Tail(pieces), Append(current, pieces[1]))

\* the shape of the URL: the endpoint, "?", and six parameters in order,
\* each key=value, with the scope value the canonical strings in input
\* order with one space between neighbours
UrlShape(url, client_id, redirect_uri, scopes) ==
    LET params == SplitParams(SubSeq(url, 3, Len(url)), <<>>)
        key(i) == params[i][1]
        value(i) == SubSeq(params[i], 3, Len(params[i]))
    IN  /\ url[1] = "https://accounts.google.com/o/oauth2/auth"
        /\ url[2] = "?"
        /\ Len(params) = 6
        /\ \A i \in 1..6 : Len(params[i]) >= 2 /\ params[i][2] = "="
        /\ <<key(1), key(2), key(3), key(4), key(5), key(6)>>
             = <<"client_id", "redirect_uri", "response_type", "scope",
                 "access_type", "prompt">>
        /\ value(1) = <<client_id>>
        /\ value(2) = <<redirect_uri>>
        /\ value(3) = <<"code">>
        /\ Len(value(4)) = IF Len(scopes) = 0 THEN 0 ELSE 2 * Len(scopes) - 1
        /\ \A j \in 1..Len(scopes) : value(4)[2 * j - 1] = as_str(scopes[j])
        /\ \A j \in 1..(Len(scopes) - 1) : value(4)[2 * j] = " "
        /\ value(5) = <<"offline">>
        /\ value(6) = <<"consent">>

ScenarioScopes == <<"CalendarReadOnly", "TasksReadOnly">>

ScenarioScopeText ==
    <<"https://www.googleapis.com/auth/calendar.readonly", " ",
      "https://www.googleapis.com/auth/tasks.readonly">>

\* C19 as stated: the URL is the endpoint followed by client_id,
\* redirect_uri, response_type=code, scope, access_type=offline and
\* prompt=consent, and for the scopes [CalendarReadOnly, TasksReadOnly] it
\* contains both scope strings joined by a space and the text
\* prompt=consent&access_type=offline.
C19_Original ==
    applied.fn = "get_oauth_url" =>
        /\ UrlShape(applied.result, applied.args[1], applied.args[2],
                    applied.args[3])
        /\ (applied.args[3] = ScenarioScopes =>
              /\ Contains(applied.result, ScenarioScopeText)
              /\ Contains(applied.result,
                          <<"prompt", "=", "consent", "&",
                            "access_type", "=", "offline">>))

\* C19 amended: the same, with the text access_type=offline&prompt=consent
\* that the parameter order gives.
C19_UrlShape ==
    applied.fn = "get_oauth_url" =>
        /\ UrlShape(applied.result, applied.args[1], applied.args[2],
                    applied.args[3])
        /\ (applied.args[3] = ScenarioScopes =>
              /\ Contains(applied.result, ScenarioScopeText)
              /\ Contains(applied.result,
                          <<"access_type", "=", "offline", "&",
                            "prompt", "=", "consent">>))

C19_Witness ==
    /\ applied.fn = "get_oauth_url"
    /\ applied.args = <<"abc", "https://app/cb", ScenarioScopes>>
    /\ Len(applied.result) = 27

\* C20: the token data built from an AccessToken with expires_in = n at
\* instant T has expires_on = T + n exactly, at construction and at every
\* refresh, and no step other than a successful refresh changes the token
\* data, so expires_on stays what the conversion computed.
C20_ExpiryFixedAtConversion ==
    /\ [](successes = 0 =>
            access_token[1].expires_on
              = constructed.at + constructed.expires_in)
    /\ [][/\ (SuccessfulRefreshStep =>
                access_token'[1].expires_on
                  = now + Field(call'.response[1], "expires_in", 0))
          /\ (~SuccessfulRefreshStep => access_token' = access_token)
         ]_vars

\* a token refreshed at instant 1 with expires_in = 2, one second later
C20_Witness ==
    /\ call.refreshed
    /\ successes = 1
    /\ Field(call.response[1], "expires_in", 0) = 2
    /\ now = 2
    /\ access_token[1].expires_on = 3


\* the step in which an entry point returns the builder of its mode
EntryStep == builder.mode = "Uninitialized" /\ builder'.last.op = "entry"

\* the step in which a setter returns the builder
SetterStep == builder' # builder /\ builder'.last.op = "setter"

\* the mode, URL and method the three calendar entry points fix
CalendarEntryShape(b) ==
    /\ b.last.name = "get_events" =>
          /\ b.mode = "EventListMode"
          /\ b.request.method = "GET"
          /\ Len(b.request.url) = 3
          /\ b.request.url[1] = CalendarBase
          /\ b.request.url[3] = "/events"
    /\ b.last.name = "insert_event" =>
          /\ b.mode = "EventInsertMode"
          /\ b.request.method = "POST"
          /\ Len(b.request.url) = 3
          /\ b.request.url[1] = CalendarBase
          /\ b.request.url[3] = "/events"
          /\ Len(b.payload) = 1
          /\ \E st \in Instants, en \in Instants :
                {<<"start", st>>, <<"end", en>>} \subseteq b.payload[1]
    /\ b.last.name = "patch_event" =>
          /\ b.mode = "EventPatchMode"
          /\ b.request.method = "PATCH"
          /\ Len(b.request.url) = 4
          /\ b.request.url[1] = CalendarBase
          /\ b.request.url[3] = "/events/"

\* what a setter leaves alone: the mode, the URL, the method, the body,
\* every query parameter and every payload field but the one it names (the
\* field set_task names is the task itself)
SetterWritesOnlyItsOwn(b, b2) ==
    LET l == b2.last
        others(map) == {e \in map : e[1] # l.key}
    IN /\ b2.mode = b.mode
       /\ b2.client = b.client
       /\ b2.request.url = b.request.url
       /\ b2.request.method = b.request.method
       /\ b2.request.body = b.request.body
       /\ Len(b2.payload) = Len(b.payload)
       /\ CASE l.target = "params" ->
                 /\ b2.payload = b.payload
                 /\ others(b2.request.params) = others(b.request.params)
                 /\ <<l.key, l.value>> \in b2.request.params
            [] l.target = "whole task" ->
                 /\ b2.request.params = b.request.params
                 /\ b2.payload[1] \in Tasks
            [] OTHER ->
                 /\ b2.request.params = b.request.params
                 /\ Len(b.payload) = 1
                 /\ others(b2.payload[1]) = others(b.payload[1])
                 /\ <<l.key, l.value>> \in b2.payload[1]

C30_InsertModeHoldsPayload ==
    builder.mode \in {"EventInsertMode", "TaskInsertMode"} =>
        /\ Len(builder.payload) = 1
        /\ builder.last.outcome = "ok"

\* both insert modes after setters that went through modify_task and the
\* Some(ref mut event) branch
C30_Witness ==
    /\ builder.mode = "TaskInsertMode"
    /\ builder.setters = 2
    /\ builder.last.name = "set_task_title"
    /\ <<"title", "a">> \in builder.payload[1]

C30_WitnessCalendar ==
    /\ builder.mode = "EventInsertMode"
    /\ builder.last.name = "set_recurrence"
    /\ <<"recurrence", "b">> \in builder.payload[1]


\* a request whose method is outside what make_request of its builder
\* matches on: anything but GET and POST on the calendar events builder,
\* anything but GET, POST and PATCH on the Gmail and Tasks builders
UnsupportedRequest(c) ==
    /\ c.name = "request"
    /\ \/ c.builder = "calendar" /\ c.method \notin {"GET", "POST"}
       \/ c.builder \in {"gmail", "tasks"}
            /\ c.method \notin {"GET", "POST", "PATCH"}

\* C22: make_request on a builder whose method is outside the supported set
\* returns an error and never issues the resource HTTP call; when the token
\* is valid or auto-refresh is off it returns the error without any network
\* I/O, the token endpoint included.
C22_UnsupportedMethodIsAnError ==
    /\ [](UnsupportedRequest(call) =>
            /\ call.http = None
            /\ pc # "awaiting_http"
            /\ IF pc = "awaiting_token" THEN call.result = "pending"
               ELSE call.result \in {"Err", "Cancelled"})
    /\ [][pc = "idle" /\ call' # call /\ UnsupportedRequest(call')
          /\ ~needs_refresh(auto_refresh_token, access_token, now) =>
            /\ pc' = "idle"
            /\ call'.result = "Err"
            /\ call'.err = "unsupported"
            /\ call'.endpoint_calls = 0
            /\ endpoint_calls' = endpoint_calls]_vars

\* DELETE on a calendar events builder over a valid token: an error, and
\* neither endpoint was called
C22_Witness ==
    /\ call.name = "request"
    /\ call.builder = "calendar"
    /\ call.method = "DELETE"
    /\ call.result = "Err"
    /\ call.err = "unsupported"
    /\ call.http = None
    /\ call.checked
    /\ endpoint_calls = 0
    /\ is_access_token_valid(access_token, now)


\* C23: get_validity_token_secs returns the signed number of whole seconds
\* from now until the stored instant: strictly positive when the instant is
\* at least one second ahead, strictly negative when it is at least one
\* second behind.
C23_SignedWholeSeconds ==
    applied.fn = "get_validity_token_secs"
      /\ applied.args[1].text = "rfc3339" =>
        LET d == applied.args[1].instant - applied.args[2]
            r == applied.result
            abs(x) == IF x < 0 THEN -x ELSE x
        IN /\ r.kind = "value"
           /\ abs(r.secs) * SubSecondSteps <= abs(d)
           /\ abs(d) < (abs(r.secs) + 1) * SubSecondSteps
           /\ (d >= SubSecondSteps => r.secs > 0)
           /\ (d <= -SubSecondSteps => r.secs < 0)
           /\ (r.secs > 0 => d > 0)
           /\ (r.secs < 0 => d < 0)

\* an expiry one second and a fraction in the past: minus one
C23_Witness ==
    /\ applied.fn = "get_validity_token_secs"
    /\ applied.args[1].text = "rfc3339"
    /\ applied.args[1].instant - applied.args[2] = -(SubSecondSteps + 1)
    /\ applied.result.secs = -1


\* C24: the resource call that the terminal request() of a Gmail builder
\* issues (trash_email and untrash_email included) carries the HTTP method
\* its entry point set on the builder.
C24_GmailSendsEntryPointMethod ==
    call.name = "request"
      /\ call.builder \in {"gmail", "gmail_delete", "gmail_trash"}
      /\ Len(call.http) = 1 =>
        call.http[1].method = call.method


\* a request whose resource call was answered with a non-success status
AnsweredWithStatus(c) ==
    c.name = "request" /\ Len(c.http) = 1 /\ c.err = "status"

\* a request whose resource call could not be made
TransportFailed(c) ==
    c.name = "request" /\ Len(c.http) = 1 /\ c.err = "transport"

\* C25 as stated: every builder's terminal operation reports a non-success
\* status of the resource call as Ok(None), and returns Err only when the
\* request itself could not be made.
C25_Original ==
    /\ AnsweredWithStatus(call) => call.result = "Ok(None)"
    /\ TransportFailed(call) => call.result = "Err"

\* C25: a non-success status of the resource call is reported as Ok(None)
\* by the terminal operations that go through make_request (Calendar, Gmail
\* list and get, Tasks list, insert and patch) and by the task-list
\* builder, as Ok(false) by the Tasks delete operation, and as Err by the
\* Gmail delete and trash operations; a request that could not be made is
\* Err in every one of them.
C25_OutcomeByBuilder ==
    /\ AnsweredWithStatus(call) =>
          /\ call.builder \in {"calendar", "gmail", "tasks", "tasklist"} =>
                call.result = "Ok(None)"
          /\ call.builder = "tasks_delete" => call.result = "Ok(false)"
          /\ call.builder \in {"gmail_delete", "gmail_trash"} =>
                call.result = "Err"
    /\ TransportFailed(call) => call.result = "Err"

\* a Gmail delete answered with a non-success status: Err
C25_Witness ==
    /\ AnsweredWithStatus(call)
    /\ call.builder = "gmail_delete"
    /\ call.method = "DELETE"
    /\ call.result = "Err"

\* a Tasks delete answered with a non-success status: Ok(false)
C25_WitnessTasksDelete ==
    /\ AnsweredWithStatus(call)
    /\ call.builder = "tasks_delete"
    /\ call.result = "Ok(false)"


\* the step in which the refresh awaited inside an operation ends without a
\* new token and without the caller having dropped it
RefreshCheckFailsStep ==
    /\ pc = "awaiting_token"
    /\ pc' = "idle"
    /\ ~call'.refreshed
    /\ call'.result # "Cancelled"

\* C26: when the refresh check inside a builder's request() fails,
\* request() returns that error and the resource HTTP call is never issued;
\* the error is never turned into Ok(None) or Ok(false).
C26_RefreshErrorReachesCaller ==
    /\ [][RefreshCheckFailsStep /\ call.name = "request" =>
            /\ call'.result = "Err"
            /\ call'.err \in {"status", "transport"}
            /\ call'.http = None
            /\ access_token' = access_token]_vars
    /\ [](call.name = "request" /\ call.endpoint_calls = 1
            /\ ~call.refreshed /\ pc = "idle" =>
              /\ call.result \in {"Err", "Cancelled"}
              /\ call.http = None)

\* a Tasks delete whose refresh check met a failing token endpoint: Err,
\* and no resource call
C26_Witness ==
    /\ call.name = "request"
    /\ call.builder = "tasks_delete"
    /\ call.endpoint_calls = 1
    /\ ~call.refreshed
    /\ call.result = "Err"
    /\ call.err = "status"
    /\ call.http = None
    /\ pc = "idle"


\* C27: every refresh call sends the client id, the client secret and the
\* refresh token of the credential record given at construction, and no
\* operation of the manager ever changes client_credentials: the n-th
\* refresh sends what the first sent.
C27_RefreshSendsConstructionCredentials ==
    /\ [](Len(call.sent) = 1 =>
            /\ call.sent[1].client_id = dummy_creds.client_id
            /\ call.sent[1].client_secret = dummy_creds.client_secret
            /\ call.sent[1].refresh_token = dummy_creds.refresh_token
            /\ call.sent[1].grant_type = "refresh_token")
    /\ [](client_credentials = dummy_creds)
    /\ [][client_credentials' = client_credentials]_vars

\* a second refresh, after a first one that succeeded and a subscriber that
\* registered: it sends the construction credentials again
C27_Witness ==
    /\ endpoint_calls = 2
    /\ successes = 1
    /\ Len(refresh_handlers) = 1
    /\ pc = "awaiting_token"
    /\ Len(call.sent) = 1
    /\ call.sent[1] = refresh_params(dummy_creds)


\* the step in which a builder's request() starts, on a builder that makes
\* the refresh check
RequestStartsStep ==
    /\ pc = "idle"
    /\ call' # call
    /\ call'.name = "request"
    /\ CallsRefreshCheck(call'.builder)

CheckStartsRefreshStep ==
    /\ pc = "idle"
    /\ call' # call
    /\ call'.name = "refresh_access_token_check"
    /\ needs_refresh(auto_refresh_token, access_token, now)

\* a failed refresh leaves the manager Expired with auto-refresh as it was,
\* and the next check makes exactly one token-endpoint call
FailedRefreshIsNotSticky ==
    /\ [][RefreshCheckFailsStep /\ call.name = "refresh_access_token_check" =>
            /\ call'.result = "Err"
            /\ auto_refresh_token' = auto_refresh_token
            /\ access_token' = access_token
            /\ needs_refresh(auto_refresh_token', access_token', now')]_vars
    /\ [][CheckStartsRefreshStep =>
            /\ pc' = "awaiting_token"
            /\ endpoint_calls' = endpoint_calls + 1
            /\ call'.endpoint_calls = 1]_vars

\* a successful refresh answered without a positive expires_in
SucceededWithoutLifetime ==
    call.refreshed /\ Field(call.response[1], "expires_in", 0) <= 0

\* C28 as stated: a failed refresh is not sticky, a refresh call that
\* succeeds makes the manager Valid, and so a manager with auto-refresh on
\* whose caller keeps checking against an endpoint that eventually succeeds
\* eventually becomes Valid.
C28_Original ==
    /\ FailedRefreshIsNotSticky
    /\ [][SuccessfulRefreshStep =>
            is_access_token_valid(access_token', now')]_vars
    /\ (auto_refresh_token => <>is_access_token_valid(access_token, now))

\* C28: a failed refresh is not sticky: the manager stays Expired with
\* auto-refresh as it was, the next refresh_access_token_check makes exactly
\* one token-endpoint call, and if that call succeeds with expires_in > 0
\* the manager becomes Valid; so with auto-refresh on, a caller that keeps
\* checking and an endpoint that eventually succeeds, the manager eventually
\* becomes Valid unless the success carried no positive expires_in.
C28_RetryEventuallyValid ==
    /\ FailedRefreshIsNotSticky
    /\ [][SuccessfulRefreshStep
          /\ Field(call'.response[1], "expires_in", 0) > 0 =>
            is_access_token_valid(access_token', now')]_vars
    /\ (auto_refresh_token =>
          <>(is_access_token_valid(access_token, now)
             \/ SucceededWithoutLifetime))

\* a check on a manager constructed Expired that failed, was made again and
\* succeeded: the manager is Valid
C28_Witness ==
    /\ constructed.expires_in = 0
    /\ auto_refresh_token
    /\ endpoint_calls = 2
    /\ successes = 1
    /\ call.name = "refresh_access_token_check"
    /\ call.refreshed
    /\ call.result = "Ok"
    /\ is_access_token_valid(access_token, now)

====
